---- MODULE Spec2Model ----
(***************************************************************************)
(* Model of the CropManage agent's API client (src/api_handler.py), of the *)
(* chat-fix bot (src/.github/scripts/chat_patch.py) and of the interactive *)
(* agents (src/main.py, src/crop_agent/main.py).                           *)
(*                                                                         *)
(* Encoding of Python values:                                              *)
(*   - a str is a sequence of one-character strings;                       *)
(*   - an optional value is None == <<>> or Some(v) == <<v>>;              *)
(*   - every HTTP request the code makes is appended to reqs together with *)
(*     the outcome the backend gave it.                                    *)
(***************************************************************************)
EXTENDS Integers, Sequences, FiniteSets, TLC

VARIABLES
    ranches,       \* body of GET /v2/ranches.json (list of ranch objects)
    crop_types,    \* body of GET /v2/crop-types.json
    fn,            \* the api_handler function being called
    pc,            \* position inside that function
    crop,          \* argument crop / crop_name
    location,      \* argument location / ranch_name
    ranch_id,      \* local ranch_id
    ranch_guid,    \* local ranch_guid
    crop_type_id,  \* local crop_type_id
    reqs,          \* HTTP requests issued so far by the call, in order
    ret,           \* how the call ended: pending, return(val) or raise(val)
    env,           \* chat_patch: which environment variables are set
    bpc,           \* chat_patch: position inside main / apply_patch_and_push
    diff,          \* chat_patch: stdout of git diff base..head
    file_ctx,      \* chat_patch: number of changed files read into file_ctx
    file_len,      \* chat_patch: length of the longest of the first twenty of them
    patch,         \* chat_patch: the variable patch / patch_text
    calls,         \* chat_patch: model calls made so far, in order
    cmds,          \* chat_patch: git commands run so far, in order
    comments,      \* chat_patch: comments posted (or printed) so far, in order
    exit,          \* chat_patch: how and where the run ended
    tree,          \* chat_patch: the checkout, relative to the patch
    run,           \* chat_patch: 1 in the bot's run, 2 in a repeated apply
    agent,         \* which interactive main is running, or a direct caller
    apc,           \* agent: position inside main / handle_intent
    auth_reqs,     \* agent: token requests made by authenticate, in order
    token,         \* agent: what authenticate returned
    intent,        \* agent: the intent handed to handle_intent
    parameters,    \* agent: the parameters dict (crop, location)
    ops,           \* agent: backend operations invoked by the current handle_intent
    response,      \* agent: how the current handle_intent ended
    farewell,      \* agent: speak("Goodbye!") has been called
    interrupted,   \* agent: a KeyboardInterrupt has arrived in the loop
    aexit          \* agent: how main ended

apiVars == <<ranches, crop_types, fn, pc, crop, location, ranch_id,
             ranch_guid, crop_type_id, reqs, ret>>

botVars == <<env, bpc, diff, file_ctx, file_len, patch, calls, cmds, comments, exit, tree, run>>

agentVars == <<agent, apc, auth_reqs, token, intent, parameters, ops, response,
               farewell, interrupted, aexit>>

vars == <<apiVars, botVars, agentVars>>

----------------------------------------------------------------------------
(* Bounds of the model *)
MaxNameLen == 2     \* longest ranch / query name, in characters
MaxRanches == 2     \* longest ranch listing
MaxFill == 2        \* most whitespace characters in a model output
MaxFiles == 1       \* most files changed by the pull request

----------------------------------------------------------------------------
(* Python values *)
None == <<>>
Some(v) == <<v>>

Chars == {"p", "P", " "}

Strs == UNION {[1..k -> Chars] : k \in 0..MaxNameLen}

OptStrs == {None} \cup {Some(s) : s \in Strs}

\* x or "" for an optional str
or_empty(x) == IF x = None THEN <<>> ELSE x[1]

lower_char(c) == IF c = "P" THEN "p" ELSE c

\* str.lower()
lower(s) == [i \in 1..Len(s) |-> lower_char(s[i])]

\* str.isspace() of one character
is_space(c) == c \in {" ", "\t", "\r", "\n"}

RECURSIVE lstrip(_)
lstrip(s) == IF s # <<>> /\ is_space(s[1]) THEN lstrip(Tail(s)) ELSE s

RECURSIVE rstrip(_)
rstrip(s) == IF s # <<>> /\ is_space(s[Len(s)]) THEN rstrip(SubSeq(s, 1, Len(s) - 1)) ELSE s

\* str.strip()
strip(s) == rstrip(lstrip(s))

\* truthiness of an optional integer and of an optional string
truthy_int(x) == x # None /\ x[1] # 0
truthy_str(x) == x # None /\ x[1] # ""

----------------------------------------------------------------------------
(* Config (src/config.py): the attributes the class defines *)
Config == {"API_BASE", "TOKEN_URL", "CROP_TYPES", "RANCHES", "IRRIGATION",
           "FERTILIZER", "WEATHER_STATIONS"}

\* outcomes of one HTTP request as the requests library reports them
Outcomes == {"ok", "timeout", "http_error"}

Request(url, params, outcome) == [url |-> url, params |-> params, outcome |-> outcome]

Pending == [kind |-> "pending", val |-> None]
Return(v) == [kind |-> "return", val |-> v]
Raise(e) == [kind |-> "raise", val |-> e]

----------------------------------------------------------------------------
(* get_ranch_identifiers: the loop over the listing *)
\* the name of entry i of a listing, trimmed and lower-cased
norm_name(listing, i) == lower(strip(or_empty(listing[i].Name)))

\* a faulty loop that keeps the last matching entry instead of the first
RECURSIVE last_match(_, _, _)
last_match(listing, target, i) ==
    IF i > Len(listing) THEN <<None, None>>
    ELSE LET rest == last_match(listing, target, i + 1) IN
         IF norm_name(listing, i) = target /\ rest = <<None, None>>
         THEN <<listing[i].Id, listing[i].Ranch_External_GUID>>
         ELSE rest

RECURSIVE first_match(_, _, _)
first_match(listing, target, i) ==
    IF i > Len(listing) THEN <<None, None>>
    ELSE IF norm_name(listing, i) = target
         THEN <<listing[i].Id, listing[i].Ranch_External_GUID>>
         ELSE first_match(listing, target, i + 1)

\* a faulty resolver that forgets to lower-case the query
get_ranch_identifiers_no_lower(ranch_name, listing) ==
    first_match(listing, strip(or_empty(ranch_name)), 1)

get_ranch_identifiers(ranch_name, listing) ==
    first_match(listing, lower(strip(or_empty(ranch_name))), 1)

----------------------------------------------------------------------------
(* Specification of the identifier resolver called on its own *)
RanchPayloads == {<<Some(12), Some("g-99")>>, <<Some(13), None>>, <<None, Some("g-98")>>}

RanchEntries == {[Name |-> n, Id |-> p[1], Ranch_External_GUID |-> p[2]] :
                    n \in OptStrs, p \in RanchPayloads}

RanchListings == UNION {[1..k -> RanchEntries] : k \in 0..MaxRanches}

\* no interactive agent is running
AgentIdle ==
    /\ agent = "off"
    /\ apc = "off"
    /\ auth_reqs = <<>>
    /\ token = None
    /\ intent = "none"
    /\ parameters = [crop |-> None, location |-> None]
    /\ ops = <<>>
    /\ response = Pending
    /\ farewell = FALSE
    /\ interrupted = FALSE
    /\ aexit = "off"

\* chat_patch is not running
BotIdle ==
    /\ env = [OPENAI_API_KEY |-> FALSE, GITHUB_TOKEN |-> FALSE, REPO |-> FALSE, PR_NUMBER |-> FALSE]
    /\ bpc = "off"
    /\ diff = <<>>
    /\ file_ctx = 0
    /\ file_len = 0
    /\ patch = None
    /\ calls = <<>>
    /\ cmds = <<>>
    /\ comments = <<>>
    /\ exit = [how |-> "off", at |-> "off"]
    /\ tree = "clean"
    /\ run = 0

ResolverInit ==
    /\ BotIdle
    /\ AgentIdle
    /\ ranches \in RanchListings
    /\ crop_types = <<>>
    /\ fn = "get_ranch_identifiers"
    /\ pc = "start"
    /\ crop = None
    /\ location \in OptStrs
    /\ ranch_id = None
    /\ ranch_guid = None
    /\ crop_type_id = None
    /\ reqs = <<>>
    /\ ret = Pending

\* get_ranch_identifiers(ranch_name, token), list_ranches included
ResolveCall ==
    /\ fn = "get_ranch_identifiers"
    /\ pc = "start"
    /\ \E o \in Outcomes :
         /\ reqs' = Append(reqs, Request("RANCHES", None, o))
         /\ ret' = IF o = "ok"
                   THEN Return(get_ranch_identifiers(location, ranches))
                   ELSE Raise("RequestException")
    /\ pc' = "done"
    /\ UNCHANGED <<ranches, crop_types, fn, crop, location, ranch_id,
                   ranch_guid, crop_type_id, botVars, agentVars>>

ResolverNext == ResolveCall

ResolverSpec == ResolverInit /\ [][ResolverNext]_vars

----------------------------------------------------------------------------
(* Properties of the resolver *)

\* a run of n spaces
Spaces(n) == [i \in 1..n |-> " "]

\* the same letter up to case
same_letter(c, d) == c = d \/ {c, d} = {"p", "P"}

\* a and b differ only by case and by surrounding whitespace: each is a core
\* padded with spaces on both sides, and the cores agree letter by letter
\* up to case
DifferOnlyByCaseOrPadding(a, b) ==
    \E la, ra \in 0..Len(a), lb, rb \in 0..Len(b) :
        /\ la + ra <= Len(a)
        /\ lb + rb <= Len(b)
        /\ SubSeq(a, 1, la) = Spaces(la)
        /\ SubSeq(a, Len(a) - ra + 1, Len(a)) = Spaces(ra)
        /\ SubSeq(b, 1, lb) = Spaces(lb)
        /\ SubSeq(b, Len(b) - rb + 1, Len(b)) = Spaces(rb)
        /\ Len(a) - la - ra = Len(b) - lb - rb
        /\ \A i \in 1..(Len(a) - la - ra) : same_letter(a[la + i], b[lb + i])

contains_char(s, c) == \E i \in 1..Len(s) : s[i] = c

ResolverReturned == fn = "get_ranch_identifiers" /\ pc = "done" /\ ret.kind = "return"

\* C1: two query names that are equal after trimming surrounding whitespace
\* and lower-casing resolve to the same (numeric id, GUID) pair on every
\* ranch listing.
C1_SameResultUpToCaseAndPadding ==
    ResolverReturned =>
        \A q \in OptStrs :
            DifferOnlyByCaseOrPadding(or_empty(q), or_empty(location))
                => get_ranch_identifiers(q, ranches) = ret.val

\* C1 witness: a query with an upper-case letter and surrounding whitespace
\* found an entry whose name is spelled differently
C1_Witness ==
    /\ ResolverReturned
    /\ location # None
    /\ contains_char(location[1], "P")
    /\ contains_char(location[1], " ")
    /\ ret.val # <<None, None>>
    /\ \A i \in 1..Len(ranches) : ranches[i].Name # location

\* indices of the entries whose normalised name equals the normalised query
Matches(query, listing) ==
    {i \in 1..Len(listing) : norm_name(listing, i) = lower(strip(or_empty(query)))}

Min(S) == CHOOSE m \in S : \A n \in S : m <= n

\* C2: the resolver returns the identifiers of the first entry, in listing
\* order, whose trimmed lower-cased Name equals the trimmed lower-cased
\* query, and (None, None) when no entry matches.
C2_FirstMatchOrNone ==
    ResolverReturned =>
        LET M == Matches(location, ranches) IN
        IF M = {} THEN ret.val = <<None, None>>
        ELSE ret.val = <<ranches[Min(M)].Id, ranches[Min(M)].Ranch_External_GUID>>

\* C2 witness: two entries with the same normalised name and different
\* identifiers both match the query
C2_Witness ==
    /\ ResolverReturned
    /\ \E i, j \in Matches(location, ranches) :
          /\ i < j
          /\ ranches[i].Id # ranches[j].Id

----------------------------------------------------------------------------
(* get_crop_type_id: the loop over the crop-type listing *)
RECURSIVE first_crop(_, _, _)
first_crop(listing, target, i) ==
    IF i > Len(listing) THEN None
    ELSE IF norm_name(listing, i) = target
         THEN IF truthy_int(listing[i].Id) THEN listing[i].Id ELSE listing[i].CropTypeId
         ELSE first_crop(listing, target, i + 1)

get_crop_type_id(crop_name, listing) ==
    first_crop(listing, lower(strip(or_empty(crop_name))), 1)

\* get_ranch_id(ranch_name, token)
get_ranch_id(ranch_name, listing) == get_ranch_identifiers(ranch_name, listing)[1]

----------------------------------------------------------------------------
(* Specification of the request chains of api_handler *)

\* what the backend can hold: at most one ranch and one crop type, with
\* every combination of present, absent and falsy identifiers
ApiRanchNames == {Some(<<"p">>), Some(<<" ", "P">>)}
ApiRanchIds == {None, Some(0), Some(12)}
ApiRanchGuids == {None, Some(""), Some("g-99")}
ApiRanchListings ==
    {<<>>} \cup {<<[Name |-> n, Id |-> i, Ranch_External_GUID |-> g]>> :
                    n \in ApiRanchNames, i \in ApiRanchIds, g \in ApiRanchGuids}

ApiCropListings ==
    {<<>>} \cup {<<[Name |-> Some(<<"p">>), Id |-> i, CropTypeId |-> c]>> :
                    i \in {None, Some(0), Some(5)}, c \in {None, Some(7)}}

\* what the caller can pass
ApiLocations == {Some(<<"p">>), Some(<<"P", " ">>), Some(<<"P", "P">>)}
ApiCrops == {Some(<<"P">>), Some(<<"P", "P">>)}

\* a weather-stations response can also be a success carrying an empty list
StationOutcomes == Outcomes \cup {"ok_empty"}

ApiInit ==
    /\ BotIdle
    /\ AgentIdle
    /\ ranches \in ApiRanchListings
    /\ crop_types \in ApiCropListings
    /\ fn = "none"
    /\ pc = "idle"
    /\ crop = None
    /\ location = None
    /\ ranch_id = None
    /\ ranch_guid = None
    /\ crop_type_id = None
    /\ reqs = <<>>
    /\ ret = Pending

\* the caller invokes get_weather_update(location, token)
CallWeather ==
    /\ pc = "idle"
    /\ fn' = "get_weather_update"
    /\ \E l \in ApiLocations : location' = l
    /\ pc' = "resolve"
    /\ UNCHANGED <<ranches, crop_types, crop, ranch_id, ranch_guid, crop_type_id, reqs, ret, botVars, agentVars>>

\* the caller invokes get_plantings_for_ranch(token, ranch_name)
CallPlantings ==
    /\ pc = "idle"
    /\ fn' = "get_plantings_for_ranch"
    /\ \E l \in ApiLocations : location' = l
    /\ pc' = "resolve"
    /\ UNCHANGED <<ranches, crop_types, crop, ranch_id, ranch_guid, crop_type_id, reqs, ret, botVars, agentVars>>

\* the caller invokes get_irrigation_recommendation or
\* get_fertilizer_recommendation(crop, location, token)
CallRecommendation ==
    /\ pc = "idle"
    /\ fn' \in {"get_irrigation_recommendation", "get_fertilizer_recommendation"}
    /\ \E c \in ApiCrops : crop' = c
    /\ \E l \in ApiLocations : location' = l
    /\ pc' = "crop_type"
    /\ UNCHANGED <<ranches, crop_types, ranch_id, ranch_guid, crop_type_id, reqs, ret, botVars, agentVars>>

\* get_weather_update, lines 96-98: resolve the ranch, stop when not found
WeatherResolve ==
    /\ fn = "get_weather_update"
    /\ pc = "resolve"
    /\ \E o \in Outcomes :
         /\ reqs' = Append(reqs, Request("RANCHES", None, o))
         /\ IF o # "ok"
            THEN /\ ret' = Raise("RequestException")
                 /\ pc' = "done"
                 /\ UNCHANGED <<ranch_id, ranch_guid>>
            ELSE LET ids == get_ranch_identifiers(location, ranches) IN
                 /\ ranch_id' = ids[1]
                 /\ ranch_guid' = ids[2]
                 /\ IF ~(truthy_str(ids[2]) \/ truthy_int(ids[1]))
                    THEN ret' = Return(<<"Location not found">>) /\ pc' = "done"
                    ELSE ret' = ret /\ pc' = "try_guid"
    /\ UNCHANGED <<ranches, crop_types, fn, crop, location, crop_type_id, botVars, agentVars>>

\* a faulty test of the first response: no response is ever taken
never_usable(o) == FALSE

\* get_weather_update, line 104: the first response is taken when its
\* status is 200 and its body is a non-empty list
usable_stations(o) == o = "ok"

\* get_weather_update, lines 100-110: the first stations request
WeatherTryGuid ==
    /\ fn = "get_weather_update"
    /\ pc = "try_guid"
    /\ \E o \in StationOutcomes :
         /\ reqs' = Append(reqs, Request("WEATHER_STATIONS",
                        IF truthy_str(ranch_guid) THEN <<"ranchGuid", ranch_guid>> ELSE None,
                        o))
         /\ IF usable_stations(o)
            THEN ret' = Return(<<"Current weather", Len(reqs) + 1>>) /\ pc' = "done"
            ELSE ret' = ret /\ pc' = "fallback"
    /\ UNCHANGED <<ranches, crop_types, fn, crop, location, ranch_id, ranch_guid, crop_type_id, botVars, agentVars>>

\* get_weather_update, lines 112-121: the second stations request
WeatherFallback ==
    /\ fn = "get_weather_update"
    /\ pc = "fallback"
    /\ \E o \in StationOutcomes :
         /\ reqs' = Append(reqs, Request("WEATHER_STATIONS",
                        IF truthy_int(ranch_id) THEN <<"ranchId", ranch_id>> ELSE None,
                        o))
         /\ ret' = CASE o = "ok" -> Return(<<"Current weather", Len(reqs) + 1>>)
                     [] o = "ok_empty" -> Raise("IndexError")
                     [] OTHER -> Return(<<"Weather data unavailable">>)
    /\ pc' = "done"
    /\ UNCHANGED <<ranches, crop_types, fn, crop, location, ranch_id, ranch_guid, crop_type_id, botVars, agentVars>>

\* get_plantings_for_ranch, lines 129-141: resolve the ranch, stop when not
\* found, else choose the GUID path when a GUID was resolved
PlantingsResolve ==
    /\ fn = "get_plantings_for_ranch"
    /\ pc = "resolve"
    /\ \E o \in Outcomes :
         /\ reqs' = Append(reqs, Request("RANCHES", None, o))
         /\ IF o # "ok"
            THEN /\ ret' = Raise("RequestException")
                 /\ pc' = "done"
                 /\ UNCHANGED <<ranch_id, ranch_guid>>
            ELSE LET ids == get_ranch_identifiers(location, ranches) IN
                 /\ ranch_id' = ids[1]
                 /\ ranch_guid' = ids[2]
                 /\ IF ~(truthy_int(ids[1]) \/ truthy_str(ids[2]))
                    THEN ret' = Return(<<"Ranch not found">>) /\ pc' = "done"
                    ELSE /\ ret' = ret
                         /\ pc' = IF truthy_str(ids[2]) THEN "try_guid" ELSE "fallback"
    /\ UNCHANGED <<ranches, crop_types, fn, crop, location, crop_type_id, botVars, agentVars>>

\* get_plantings_for_ranch, lines 142-148: the GUID-addressed request; the
\* URL template is read from Config before the try block is entered
PlantingsTryGuid ==
    /\ fn = "get_plantings_for_ranch"
    /\ pc = "try_guid"
    /\ IF "PLANTINGS_BY_RANCH_GUID" \notin Config
       THEN ret' = Raise("AttributeError") /\ pc' = "done" /\ reqs' = reqs
       ELSE \E o \in Outcomes :
              /\ reqs' = Append(reqs, Request("PLANTINGS_BY_RANCH_GUID", <<"guid", ranch_guid>>, o))
              /\ IF o = "ok"
                 THEN ret' = Return(<<"plantings", Len(reqs) + 1>>) /\ pc' = "done"
                 ELSE ret' = ret /\ pc' = "fallback"
    /\ UNCHANGED <<ranches, crop_types, fn, crop, location, ranch_id, ranch_guid, crop_type_id, botVars, agentVars>>

\* get_plantings_for_ranch, lines 151-159: the numeric-addressed request; the
\* URL is read from Config before the try block is entered
PlantingsFallback ==
    /\ fn = "get_plantings_for_ranch"
    /\ pc = "fallback"
    /\ IF "PLANTINGS_BY_RANCH_ID" \notin Config
       THEN ret' = Raise("AttributeError") /\ reqs' = reqs
       ELSE \E o \in Outcomes :
              /\ reqs' = Append(reqs, Request("PLANTINGS_BY_RANCH_ID", <<"ranchId", ranch_id>>, o))
              /\ ret' = IF o = "ok"
                        THEN Return(<<"plantings", Len(reqs) + 1>>)
                        ELSE Return(<<"Failed to fetch plantings">>)
    /\ pc' = "done"
    /\ UNCHANGED <<ranches, crop_types, fn, crop, location, ranch_id, ranch_guid, crop_type_id, botVars, agentVars>>

IsRecommendation == fn \in {"get_irrigation_recommendation", "get_fertilizer_recommendation"}

\* lines 169 / 192: crop_type_id = get_crop_type_id(crop, token)
RecommendationCropType ==
    /\ IsRecommendation
    /\ pc = "crop_type"
    /\ \E o \in Outcomes :
         /\ reqs' = Append(reqs, Request("CROP_TYPES", None, o))
         /\ IF o # "ok"
            THEN ret' = Raise("RequestException") /\ pc' = "done" /\ crop_type_id' = crop_type_id
            ELSE /\ crop_type_id' = get_crop_type_id(crop, crop_types)
                 /\ ret' = ret
                 /\ pc' = "ranch_id"
    /\ UNCHANGED <<ranches, crop_types, fn, crop, location, ranch_id, ranch_guid, botVars, agentVars>>

\* lines 170-172 / 193-195: ranch_id = get_ranch_id(location, token), then
\* the validation of both identifiers
RecommendationRanchId ==
    /\ IsRecommendation
    /\ pc = "ranch_id"
    /\ \E o \in Outcomes :
         /\ reqs' = Append(reqs, Request("RANCHES", None, o))
         /\ IF o # "ok"
            THEN ret' = Raise("RequestException") /\ pc' = "done" /\ ranch_id' = ranch_id
            ELSE LET rid == get_ranch_id(location, ranches) IN
                 /\ ranch_id' = rid
                 /\ IF ~truthy_int(crop_type_id) \/ ~truthy_int(rid)
                    THEN ret' = Return(<<"Invalid crop or location">>) /\ pc' = "done"
                    ELSE ret' = ret /\ pc' = "post"
    /\ UNCHANGED <<ranches, crop_types, fn, crop, location, ranch_guid, crop_type_id, botVars, agentVars>>

\* lines 174-189 / 197-213: the recommendation POST
RecommendationPost ==
    /\ IsRecommendation
    /\ pc = "post"
    /\ \E o \in Outcomes :
         /\ reqs' = Append(reqs,
                Request(IF fn = "get_irrigation_recommendation" THEN "IRRIGATION" ELSE "FERTILIZER",
                        <<"CropTypeId", crop_type_id, "RanchId", ranch_id>>, o))
         /\ ret' = IF o = "ok"
                   THEN Return(<<"recommendation", Len(reqs) + 1>>)
                   ELSE Return(<<"recommendation failed">>)
    /\ pc' = "done"
    /\ UNCHANGED <<ranches, crop_types, fn, crop, location, ranch_id, ranch_guid, crop_type_id, botVars, agentVars>>

ApiNext ==
    \/ CallWeather
    \/ CallPlantings
    \/ CallRecommendation
    \/ WeatherResolve
    \/ WeatherTryGuid
    \/ WeatherFallback
    \/ PlantingsResolve
    \/ PlantingsTryGuid
    \/ PlantingsFallback
    \/ RecommendationCropType
    \/ RecommendationRanchId
    \/ RecommendationPost

ApiSpec == ApiInit /\ [][ApiNext]_vars

----------------------------------------------------------------------------
(* Properties of the request chains *)

PlantingsUrls == {"PLANTINGS_BY_RANCH_GUID", "PLANTINGS_BY_RANCH_ID"}

IsPlantingsRequest(r) == r.url \in PlantingsUrls
IsStationsRequest(r) == r.url = "WEATHER_STATIONS"
IsRecommendationPost(r) == r.url \in {"IRRIGATION", "FERTILIZER"}

\* the plantings requests of the call, in the order they were issued
PlantingsRequests == SelectSeq(reqs, IsPlantingsRequest)

PlantingsDoneWithGuid ==
    fn = "get_plantings_for_ranch" /\ pc = "done" /\ truthy_str(ranch_guid)

\* C3: when the resolved ranch has a GUID, the first plantings request made
\* is the GUID-addressed one, and a numeric-addressed request is made only
\* after the GUID-addressed one has failed.
C3_GuidAddressedRequestFirst ==
    PlantingsDoneWithGuid =>
        /\ PlantingsRequests # <<>>
        /\ PlantingsRequests[1].url = "PLANTINGS_BY_RANCH_GUID"
        /\ \A k \in 1..Len(PlantingsRequests) :
              PlantingsRequests[k].url = "PLANTINGS_BY_RANCH_ID"
                  => /\ k > 1
                     /\ PlantingsRequests[k - 1].url = "PLANTINGS_BY_RANCH_GUID"
                     /\ PlantingsRequests[k - 1].outcome # "ok"

\* C4: for a ranch that resolves with a GUID the call makes one plantings
\* request when the GUID-addressed attempt succeeds, two (GUID-addressed,
\* then numeric-addressed) when it fails, and never more than two.
C4_OneOrTwoPlantingsRequests ==
    PlantingsDoneWithGuid =>
        LET n == Len(PlantingsRequests) IN
        /\ n \in {1, 2}
        /\ PlantingsRequests[1].url = "PLANTINGS_BY_RANCH_GUID"
        /\ n = 1 <=> PlantingsRequests[1].outcome = "ok"
        /\ n = 2 => PlantingsRequests[2].url = "PLANTINGS_BY_RANCH_ID"

\* C5: in get_weather_update, when the resolved ranch has a numeric id but
\* no GUID, every stations request is the numeric-addressed one
\* (ranchId=<id>) and a returned weather sentence comes from that request.
C5_OnlyNumericStationsRequest ==
    (fn = "get_weather_update" /\ truthy_int(ranch_id) /\ ~truthy_str(ranch_guid)) =>
        /\ \A k \in 1..Len(reqs) :
              IsStationsRequest(reqs[k]) => reqs[k].params = <<"ranchId", ranch_id>>
        /\ (ret.kind = "return" /\ ret.val[1] = "Current weather")
              => reqs[ret.val[2]].params = <<"ranchId", ranch_id>>

\* a listing lookup of the call has completed
LookupDone(url) == \E k \in 1..Len(reqs) : reqs[k].url = url /\ reqs[k].outcome = "ok"

\* the crop or the ranch has been looked up and has no usable identifier
ResolutionFails ==
    \/ LookupDone("CROP_TYPES") /\ ~truthy_int(crop_type_id)
    \/ LookupDone("RANCHES") /\ ~truthy_int(ranch_id)

NoRecommendationPost == \A k \in 1..Len(reqs) : ~IsRecommendationPost(reqs[k])

\* C6: when the crop or the ranch fails to resolve to a usable identifier,
\* the recommendation function returns "Invalid crop or location" and no
\* recommendation POST is issued.
C6_InvalidCropOrLocation ==
    (IsRecommendation /\ pc = "done" /\ ResolutionFails) =>
        /\ ret = Return(<<"Invalid crop or location">>)
        /\ NoRecommendationPost

\* C7: whatever the outcomes of the crop-types listing request, the ranches
\* listing request and the recommendation POST, the recommendation function
\* returns a string and raises nothing.
C7_RecommendationNeverRaises ==
    (IsRecommendation /\ pc = "done") => ret.kind = "return"

----------------------------------------------------------------------------
(* chat_patch.py: texts.  A text is a sequence of atoms: the four          *)
(* structural markers of a unified diff, each taken as one atom, and       *)
(* single whitespace characters.                                           *)

\* ensure_valid_unified_diff, line 78
tokens == <<"diff --git", "--- a/", "+++ b/", "@@">>

\* t in text
contains(text, t) == \E i \in 1..Len(text) : text[i] = t

\* a faulty validator that accepts a text carrying any one marker
ensure_any_marker(p) ==
    /\ p # <<>>
    /\ \E k \in 1..Len(tokens) : contains(p, tokens[k])

ensure_valid_unified_diff(p) ==
    /\ p # <<>>
    /\ \A k \in 1..Len(tokens) : contains(p, tokens[k])

\* length of the run of blanks (space, tab) at the head of s
RECURSIVE blank_run(_)
blank_run(s) == IF s # <<>> /\ s[1] \in {" ", "\t"} THEN 1 + blank_run(Tail(s)) ELSE 0

\* the text starts with \n or \r\n
at_newline(s) ==
    \/ Len(s) >= 1 /\ s[1] = "\n"
    \/ Len(s) >= 2 /\ s[1] = "\r" /\ s[2] = "\n"

\* a faulty sanitizer that removes whatever stands before a line end, blank
\* or not
RECURSIVE sanitize_line_ends(_)
sanitize_line_ends(s) ==
    IF s = <<>> THEN <<>>
    ELSE IF at_newline(Tail(s)) THEN sanitize_line_ends(Tail(s))
    ELSE <<s[1]>> \o sanitize_line_ends(Tail(s))

\* re.sub(r"[ \t]+(\r?\n)", r"\1", patch)
RECURSIVE sanitize_patch_whitespace(_)
sanitize_patch_whitespace(s) ==
    IF s = <<>> THEN <<>>
    ELSE LET k == blank_run(s) IN
         IF k = 0 THEN <<s[1]>> \o sanitize_patch_whitespace(Tail(s))
         ELSE LET rest == SubSeq(s, k + 1, Len(s)) IN
              IF at_newline(rest) THEN sanitize_patch_whitespace(rest)
              ELSE SubSeq(s, 1, k) \o sanitize_patch_whitespace(rest)

\* text[:n]
take(text, n) == SubSeq(text, 1, IF Len(text) < n THEN Len(text) ELSE n)

\* the slice bound of every text put into a comment
CommentCap == 65000

----------------------------------------------------------------------------
(* chat_patch.py: what the environment can produce *)

Fillers == {" ", "\n"}

\* every way of inserting one filler into a text of T
InsertFiller(T) ==
    UNION {{SubSeq(t, 1, i) \o <<c>> \o SubSeq(t, i + 1, Len(t)) :
                i \in 0..Len(t), c \in Fillers} : t \in T}

RECURSIVE WithFillers(_, _)
WithFillers(T, n) == IF n = 0 THEN T ELSE T \cup WithFillers(InsertFiller(T), n - 1)

\* the markers of S, in the order of a unified diff
RECURSIVE MarkerText(_, _)
MarkerText(S, k) ==
    IF k > Len(tokens) THEN <<>>
    ELSE (IF k \in S THEN <<tokens[k]>> ELSE <<>>) \o MarkerText(S, k + 1)

\* what the model can answer: any subset of the markers with up to MaxFill
\* whitespace characters anywhere
ModelOutputs == WithFillers({MarkerText(S, 1) : S \in SUBSET (1..Len(tokens))}, MaxFill)

\* what git diff base..head can print
DiffOutputs == {<<>>, <<" ", "\n">>, <<"diff --git", "--- a/", "+++ b/", "@@", "\n">>}

\* return codes of a git command
ReturnCodes == {0, 1}

\* run(cmd): the completed process, with the number of characters of its
\* captured output
CmdOut(c, rc, n) == [cmd |-> c, rc |-> rc, out |-> <<"output of", c>>, len |-> n]

\* a command whose output is one short line
Cmd(c, rc) == CmdOut(c, rc, 1)

\* r.stderr or r.stdout
output(r) == r.out

\* len(r.stderr or r.stdout)
output_len(r) == r.len

\* how long the captured output of a failing git apply, and the joined
\* reject files, can be: a line, or more than a comment may carry
OutputLens == {1, CommentCap + 1}

\* len(text[:n]) for a text of k characters
len_take(k, n) == IF k < n THEN k ELSE n

----------------------------------------------------------------------------
(* Specification of one run of chat_patch.py *)

BotInit ==
    /\ AgentIdle
    /\ ranches = <<>>
    /\ crop_types = <<>>
    /\ fn = "none"
    /\ pc = "off"
    /\ crop = None
    /\ location = None
    /\ ranch_id = None
    /\ ranch_guid = None
    /\ crop_type_id = None
    /\ reqs = <<>>
    /\ ret = Pending
    /\ env \in [{"OPENAI_API_KEY", "GITHUB_TOKEN", "REPO", "PR_NUMBER"} -> BOOLEAN]
    /\ bpc = "main"
    /\ diff = <<>>
    /\ file_ctx = 0
    /\ file_len = 0
    /\ patch = None
    /\ calls = <<>>
    /\ cmds = <<>>
    /\ comments = <<>>
    /\ exit = [how |-> "running", at |-> "main"]
    /\ tree \in {"clean", "committed"}
    /\ run = 1

\* the run ends at the current position
Ends(how) == bpc' = "done" /\ exit' = [how |-> how, at |-> bpc]

\* the run goes on at position l
Goes(l) == bpc' = l /\ exit' = exit

\* comment(body), lines 36-40, followed by what the caller does next; a
\* body is the sequence of its parts (heading, command outputs, texts), each
\* part a sequence of strings; the body is printed when there is no PR context, else posted, and a failed
\* POST raises out of the caller
Post(body, sizes, next) ==
    IF ~(env.GITHUB_TOKEN /\ env.REPO /\ env.PR_NUMBER)
    THEN comments' = Append(comments, [via |-> "log", body |-> body, sizes |-> sizes]) /\ next
    ELSE \/ comments' = Append(comments, [via |-> "github", body |-> body, sizes |-> sizes]) /\ next
         \/ comments' = comments /\ Ends("exception")

\* comment(body) with a fixed text: nothing of variable length is inserted
Comment(body, next) == Post(body, <<>>, next)

\* no comment is made before going on
NoComment(next) == comments' = comments /\ next

\* main, lines 188-190: the required environment
CheckEnv ==
    /\ bpc = "main"
    /\ IF ~(env.OPENAI_API_KEY /\ env.GITHUB_TOKEN /\ env.REPO)
       THEN /\ comments' = Append(comments, [via |-> "log", body |-> <<<<"Missing environment">>>>, sizes |-> <<>>])
            /\ Ends("sys.exit(0)")
       ELSE NoComment(Goes("get_pr"))
    /\ UNCHANGED <<apiVars, agentVars, tree, run, env, diff, file_ctx, file_len, patch, calls, cmds>>

\* main, lines 192-196, and get_pr, lines 42-46
GetPr ==
    /\ bpc = "get_pr"
    /\ IF ~(env.REPO /\ env.PR_NUMBER)
       THEN /\ comments' = Append(comments, [via |-> "log", body |-> <<<<"No REPO/PR_NUMBER">>>>, sizes |-> <<>>])
            /\ Ends("sys.exit(0)")
       ELSE \/ NoComment(Goes("get_diff"))
            \/ NoComment(Ends("exception"))
    /\ UNCHANGED <<apiVars, agentVars, tree, run, env, diff, file_ctx, file_len, patch, calls, cmds>>

\* a faulty test that takes only the empty string for an empty diff
diff_is_empty_string(d) == d = <<>>

\* main, line 199: not diff.strip()
diff_is_empty(d) == strip(d) = <<>>

\* main, lines 198-201: the base..head diff, and the empty-diff notice
GetDiff ==
    /\ bpc = "get_diff"
    /\ \E d \in DiffOutputs :
         /\ diff' = d
         /\ cmds' = Append(cmds, Cmd("git diff", 0))
         /\ IF diff_is_empty(d)
            THEN Comment(<<<<"No changes to patch">>>>, Ends("return"))
            ELSE NoComment(Goes("changed_files"))
    /\ UNCHANGED <<apiVars, agentVars, tree, run, env, file_ctx, file_len, patch, calls>>

\* ask_model_for_patch, lines 135-137: the caps of the file context
FileCap == 20
SnippetCap == 50000

\* how many files the pull request can change: few, or more than are put
\* into the prompt
FileCounts == (0..MaxFiles) \cup {FileCap + 1}

\* how long a changed file can be: just under the cut, or over it
FileLens == {SnippetCap - 1, SnippetCap + 1}

\* main, lines 203-204: the changed files are read
GetChangedFiles ==
    /\ bpc = "changed_files"
    /\ \E n \in FileCounts :
         /\ file_ctx' = n
         /\ file_len' \in IF n = 0 THEN {0} ELSE FileLens
    /\ cmds' = Append(cmds, Cmd("git diff --name-only", 0))
    /\ NoComment(Goes("ask"))
    /\ UNCHANGED <<apiVars, agentVars, tree, run, env, diff, patch, calls>>

\* a faulty snippet that carries the whole file
snippet_len_uncut(n) == n

\* ask_model_for_patch, line 137: len(snippet)
snippet_len(n) == IF n < 50000 THEN n ELSE 50000

\* the record of one model call: its attempt number, the number of files
\* whose content the prompt carries and the length of the longest file body
\* in it (ask_model_for_patch, lines 133-138)
Call(attempt, context, longest) ==
    [attempt |-> attempt,
     files |-> IF attempt > 1 /\ context # 0
               THEN (IF context < 20 THEN context ELSE 20) ELSE 0,
     longest |-> IF attempt > 1 /\ context # 0 THEN snippet_len(longest) ELSE 0]

\* a faulty retry decision: the first output is always taken as final
never_retry(p) == FALSE

\* main, line 211: is a second attempt needed
needs_retry(p) == ~ensure_valid_unified_diff(p)

\* main, lines 207 and 211: attempt 1, without file contents
Ask1 ==
    /\ bpc = "ask"
    /\ \/ /\ Comment(<<<<"OpenAI SDK import failed">>>>, Ends("sys.exit(0)"))
          /\ UNCHANGED <<patch, calls>>
       \/ /\ calls' = Append(calls, Call(1, 0, 0))
          /\ NoComment(Ends("exception"))
          /\ UNCHANGED patch
       \/ /\ calls' = Append(calls, Call(1, 0, 0))
          /\ \E t \in ModelOutputs :
               /\ patch' = t
               /\ NoComment(Goes(IF needs_retry(t) THEN "retry" ELSE "validate"))
    /\ UNCHANGED <<apiVars, agentVars, tree, run, env, diff, file_ctx, file_len, cmds>>

\* main, line 213: attempt 2, with file contents
Ask2 ==
    /\ bpc = "retry"
    /\ calls' = Append(calls, Call(2, file_ctx, file_len))
    /\ \/ NoComment(Ends("exception")) /\ UNCHANGED patch
       \/ \E t \in ModelOutputs : patch' = t /\ NoComment(Goes("validate"))
    /\ UNCHANGED <<apiVars, agentVars, tree, run, env, diff, file_ctx, file_len, cmds>>

\* main, lines 215-220: the invalid-patch notice, else the patch is
\* sanitized and handed to apply_patch_and_push
Validate ==
    /\ bpc = "validate"
    /\ IF ~ensure_valid_unified_diff(patch)
       THEN /\ Post(<<<<"Model did not return a valid unified diff">>, take(patch, CommentCap)>>,
                    <<len_take(Len(patch), CommentCap)>>, Ends("return"))
            /\ UNCHANGED patch
       ELSE /\ patch' = sanitize_patch_whitespace(patch)
            /\ NoComment(Goes("apply"))
    /\ UNCHANGED <<apiVars, agentVars, tree, run, env, diff, file_ctx, file_len, calls, cmds>>

\* The checkout relative to the patch: "clean" (HEAD and work tree without
\* the patch's changes), "patched" (work tree with the changes, not yet
\* committed), "committed" (HEAD already holds the changes).  What git can
\* answer, as pairs <<return code, checkout afterwards>>:
\* strict apply succeeds only where the changes are not yet present
GitApply(t) ==
    IF t = "clean" THEN {<<0, "patched">>, <<1, "clean">>} ELSE {<<1, t>>}

\* three-way apply on a checkout that already holds the changes merges to
\* the same content when the patch's blobs are known, and fails otherwise
GitApply3Way(t) ==
    IF t = "clean" THEN {<<0, "patched">>, <<1, "clean">>} ELSE {<<0, t>>, <<1, t>>}

\* git add -A and git commit: with nothing staged the commit fails; with
\* changes staged it succeeds or fails for another reason (hook, lock)
GitCommit(t) ==
    IF t = "patched" THEN {<<0, "committed">>, <<1, "patched">>} ELSE {<<1, t>>}

\* a faulty retry decision: the three-way attempt is made whatever the
\* strict attempt returned
always_three_way(r1) == TRUE

\* apply_patch_and_push, line 157
strict_failed(r1) == r1.rc # 0

\* apply_patch_and_push, lines 152-157: the strict attempt
Apply ==
    /\ bpc = "apply"
    /\ \E g \in GitApply(tree) :
       \E n \in IF g[1] = 0 THEN {1} ELSE OutputLens :
         LET r1 == CmdOut("git apply", g[1], n) IN
         /\ cmds' = Append(cmds, r1)
         /\ tree' = g[2]
         /\ NoComment(Goes(IF strict_failed(r1) THEN "apply_3way" ELSE "commit"))
    /\ UNCHANGED <<apiVars, agentVars, run, env, diff, file_ctx, file_len, patch, calls>>

\* a faulty decision that rejects the patch whatever the three-way attempt
\* returned
always_rejected(r2) == TRUE

\* apply_patch_and_push, line 161
three_way_failed(r2) == r2.rc # 0

\* apply_patch_and_push, lines 158-161: the three-way attempt
Apply3Way ==
    /\ bpc = "apply_3way"
    /\ \E g \in GitApply3Way(tree) :
       \E n \in IF g[1] = 0 THEN {1} ELSE OutputLens :
         LET r2 == CmdOut("git apply --3way", g[1], n) IN
         /\ cmds' = Append(cmds, r2)
         /\ tree' = g[2]
         /\ NoComment(Goes(IF three_way_failed(r2) THEN "rejected" ELSE "commit"))
    /\ UNCHANGED <<apiVars, agentVars, run, env, diff, file_ctx, file_len, patch, calls>>

\* a faulty failure comment that drops the output of the strict attempt
failure_body_three_way_only(r1, r2, patch_text) ==
    <<<<"Patch failed to apply">>, output(r2), take(patch_text, CommentCap)>>

\* apply_patch_and_push, lines 162-170: the body of the failure comment
failure_body(r1, r2, patch_text) ==
    <<<<"Patch failed to apply">>, output(r1), output(r2), take(patch_text, CommentCap)>>

\* apply_patch_and_push, lines 164-168: the number of characters of each
\* text inserted into the failure comment
failure_sizes(r1, r2, patch_text) ==
    <<output_len(r1), output_len(r2), len_take(Len(patch_text), CommentCap)>>

\* apply_patch_and_push, lines 162-170: the failure comment
Rejected ==
    /\ bpc = "rejected"
    /\ LET r1 == cmds[Len(cmds) - 1]
           r2 == cmds[Len(cmds)]
       IN Post(failure_body(r1, r2, patch), failure_sizes(r1, r2, patch), Goes("dump_rejects"))
    /\ UNCHANGED <<apiVars, agentVars, tree, run, env, diff, file_ctx, file_len, patch, calls, cmds>>

\* dump_rejects_as_comment, lines 84-97, and the return of line 172
DumpRejects ==
    /\ bpc = "dump_rejects"
    /\ \E found \in BOOLEAN, joined \in OutputLens :
         /\ cmds' = Append(cmds, Cmd("ls *.rej", IF found THEN 0 ELSE 1))
         /\ IF found
            THEN Post(<<<<"Reject files">>, <<"reject file contents">>>>,
                      <<len_take(joined, CommentCap)>>, Ends("return"))
            ELSE NoComment(Ends("return"))
    /\ UNCHANGED <<apiVars, agentVars, tree, run, env, diff, file_ctx, file_len, patch, calls>>

\* apply_patch_and_push, lines 175-181: identity, stage, commit
Commit ==
    /\ bpc = "commit"
    /\ \E g \in GitCommit(tree) :
         /\ cmds' = cmds \o <<Cmd("git config user.name", 0), Cmd("git config user.email", 0),
                              Cmd("git add", 0), Cmd("git commit", g[1])>>
         /\ tree' = g[2]
         /\ IF g[1] # 0
            THEN Comment(<<<<"Nothing to commit">>>>, Ends("return"))
            ELSE NoComment(Goes("push"))
    /\ UNCHANGED <<apiVars, agentVars, run, env, diff, file_ctx, file_len, patch, calls>>

\* apply_patch_and_push, lines 182-184: push, and the success comment
Push ==
    /\ bpc = "push"
    /\ \E rc \in ReturnCodes :
         /\ cmds' = Append(cmds, Cmd("git push", rc))
         /\ IF rc = 0
            THEN Comment(<<<<"Patch applied by Chat Fix Bot">>>>, Ends("return"))
            ELSE NoComment(Ends("return"))
    /\ UNCHANGED <<apiVars, agentVars, tree, run, env, diff, file_ctx, file_len, patch, calls>>

\* apply_patch_and_push(patch_text) is called once more with the same patch
\* on the checkout left by a run that applied and committed it
ApplyAgain ==
    /\ bpc = "done"
    /\ run = 1
    /\ exit.at = "push"
    /\ tree = "committed"
    /\ run' = 2
    /\ bpc' = "apply"
    /\ exit' = [how |-> "running", at |-> "apply"]
    /\ cmds' = <<>>
    /\ comments' = <<>>
    /\ UNCHANGED <<apiVars, agentVars, tree, env, diff, file_ctx, file_len, patch, calls>>

BotNext ==
    \/ CheckEnv
    \/ GetPr
    \/ GetDiff
    \/ GetChangedFiles
    \/ Ask1
    \/ Ask2
    \/ Validate
    \/ Apply
    \/ Apply3Way
    \/ Rejected
    \/ DumpRejects
    \/ Commit
    \/ Push
    \/ ApplyAgain

BotSpec == BotInit /\ [][BotNext]_vars

----------------------------------------------------------------------------
(* Properties of chat_patch.py *)

\* positions of main from the validation of the final model output onwards
AfterModel == {"validate", "apply", "apply_3way", "rejected", "dump_rejects", "commit", "push"}

\* the model has given its final output, now held by patch
HasFinalOutput == bpc \in AfterModel \/ (bpc = "done" /\ exit.at \in AfterModel)

StructuralMarkers == {"diff --git", "--- a/", "+++ b/", "@@"}

\* the text lacks one of the four structural markers
MissingMarker(text) == \E m \in StructuralMarkers : \A i \in 1..Len(text) : text[i] # m

IsApplyAttempt(c) == c.cmd \in {"git apply", "git apply --3way"}

IsTreeCommand(c) ==
    c.cmd \in {"git apply", "git apply --3way", "git add", "git commit", "git push"}

\* C8: when the final model output lacks one of the four structural markers
\* the run ends in the invalid-format branch and no apply, stage, commit or
\* push command is ever run.
C8_InvalidOutputIsNeverApplied ==
    (HasFinalOutput /\ MissingMarker(patch)) =>
        /\ \A k \in 1..Len(cmds) : ~IsTreeCommand(cmds[k])
        /\ bpc \in {"validate", "done"}
        /\ bpc = "done" => exit.at = "validate"

\* C8 witness: both model outputs were unusable and the invalid-patch notice
\* was posted
C8_Witness ==
    /\ bpc = "done"
    /\ exit = [how |-> "return", at |-> "validate"]
    /\ Len(calls) = 2
    /\ MissingMarker(patch)
    /\ patch # <<>>
    /\ comments # <<>>
    /\ comments[Len(comments)].body[1] = <<"Model did not return a valid unified diff">>

\* the apply attempts of the run, in the order they were made
ApplyAttempts == SelectSeq(cmds, IsApplyAttempt)

\* C9: at most two apply attempts are made, the strict one first; the
\* three-way one is made only after the strict one returned failure, and
\* nothing follows a successful attempt or the three-way attempt.
C9_StrictThenThreeWay ==
    LET A == ApplyAttempts IN
    /\ Len(A) <= 2
    /\ Len(A) >= 1 => A[1].cmd = "git apply"
    /\ Len(A) = 2 => A[2].cmd = "git apply --3way" /\ A[1].rc # 0

\* C9 witness: a run that made both attempts and ended
C9_Witness ==
    /\ bpc = "done"
    /\ Len(ApplyAttempts) = 2

\* strict apply failed and three-way apply succeeded
AppliedThreeWay ==
    /\ Len(ApplyAttempts) = 2
    /\ ApplyAttempts[1].rc # 0
    /\ ApplyAttempts[2].rc = 0

\* the commands run after the last apply attempt
RECURSIVE AfterApply(_)
AfterApply(c) ==
    IF c = <<>> \/ IsApplyAttempt(c[Len(c)]) THEN <<>>
    ELSE Append(AfterApply(SubSeq(c, 1, Len(c) - 1)), c[Len(c)])

\* the body carries the text as one of its parts
Carries(body, text) == \E j \in 1..Len(body) : body[j] = text

\* C10: when strict apply fails and three-way apply succeeds the run stages
\* and commits, pushes when the commit succeeded, and no comment carries the
\* output of the failed strict attempt.
C10_ThreeWaySuccessIsApplied ==
    (bpc = "done" /\ AppliedThreeWay) =>
        LET post == AfterApply(cmds) IN
        /\ exit.at \in {"commit", "push"}
        /\ Len(post) >= 4
        /\ [k \in 1..4 |-> post[k].cmd]
              = <<"git config user.name", "git config user.email", "git add", "git commit">>
        /\ IF post[4].rc = 0
           THEN Len(post) = 5 /\ post[5].cmd = "git push"
           ELSE Len(post) = 4
        /\ \A k \in 1..Len(comments) : ~Carries(comments[k].body, output(ApplyAttempts[1]))

\* C10 witness: strict apply failed, three-way apply succeeded, and the
\* patch was committed, pushed and announced
C10_Witness ==
    /\ bpc = "done"
    /\ AppliedThreeWay
    /\ cmds[Len(cmds)] = Cmd("git push", 0)
    /\ comments # <<>>
    /\ comments[Len(comments)].body = <<<<"Patch applied by Chat Fix Bot">>>>

\* strict apply and three-way apply have both failed
BothAppliesFailed ==
    /\ Len(ApplyAttempts) = 2
    /\ ApplyAttempts[1].rc # 0
    /\ ApplyAttempts[2].rc # 0

\* a comment with this heading has been made
Announced(heading) == \E k \in 1..Len(comments) : comments[k].body[1] = heading

\* the failure comment has been accepted and the run has gone past it
PastFailureComment ==
    bpc = "dump_rejects" \/ (bpc = "done" /\ exit.at = "dump_rejects")

\* C11: when both the strict and the three-way apply fail the run takes the
\* rejected branch only: its failure comment carries the output of both
\* attempts and the proposed patch text, no git add, git commit or git push
\* is run, and neither the success nor the nothing-to-commit comment is made.
C11_BothFailIsRejected ==
    BothAppliesFailed =>
        /\ bpc \in {"rejected", "dump_rejects", "done"}
        /\ bpc = "done" => exit.at \in {"rejected", "dump_rejects"}
        /\ (bpc = "done" /\ exit.at = "rejected") => exit.how = "exception"
        /\ PastFailureComment =>
              \E k \in 1..Len(comments) :
                 /\ comments[k].body[1] = <<"Patch failed to apply">>
                 /\ Carries(comments[k].body, <<"output of", "git apply">>)
                 /\ Carries(comments[k].body, <<"output of", "git apply --3way">>)
                 /\ Carries(comments[k].body, SubSeq(patch, 1, Min({Len(patch), 65000})))
        /\ \A k \in 1..Len(cmds) : cmds[k].cmd \notin {"git add", "git commit", "git push"}
        /\ ~Announced(<<"Patch applied by Chat Fix Bot">>)
        /\ ~Announced(<<"Nothing to commit">>)

\* C11 witness: both attempts failed, the failure comment was posted on the
\* pull request and the run returned
C11_Witness ==
    /\ bpc = "done"
    /\ BothAppliesFailed
    /\ exit = [how |-> "return", at |-> "dump_rejects"]
    /\ Announced(<<"Patch failed to apply">>)
    /\ \E k \in 1..Len(comments) : comments[k].via = "github"

\* the patch was applied and the run returned from the commit and push block
ReturnedAfterApply ==
    /\ bpc = "done"
    /\ exit.how = "return"
    /\ exit.at \in {"commit", "push"}

\* git add -A staged nothing: the commit failed and the work tree holds no
\* uncommitted change of the patch
NothingStaged == exit.at = "commit" /\ tree # "patched"

\* C12: after a successful apply the nothing-to-commit comment is made
\* exactly when staging produced no change against HEAD, and then nothing is
\* pushed and no success is reported; a commit that fails with changes
\* staged is not reported as nothing to commit.
C12_NothingToCommitIffNothingStaged ==
    ReturnedAfterApply =>
        /\ Announced(<<"Nothing to commit">>) <=> NothingStaged
        /\ Announced(<<"Nothing to commit">>) =>
              /\ \A k \in 1..Len(cmds) : cmds[k].cmd # "git push"
              /\ ~Announced(<<"Patch applied by Chat Fix Bot">>)

\* C13: applying the same patch a second time to the checkout left by a run
\* that applied and committed it ends with the nothing-to-commit comment
\* and never takes the rejected branch.
C13_SecondApplyIsNoOp ==
    run = 2 =>
        /\ bpc \notin {"rejected", "dump_rejects"}
        /\ ~Announced(<<"Patch failed to apply">>)
        /\ (bpc = "done" /\ exit.how = "return") =>
              /\ exit.at = "commit"
              /\ Announced(<<"Nothing to commit">>)

\* C14, the calls made so far: at most two, numbered in order, the first
\* without file contents and the second with those of the changed files
\* (twenty at most); a
\* run that goes on after one call has a valid output, and a run that
\* reports an unusable output has made both calls and no more.
C14_Calls ==
    /\ Len(calls) <= 2
    /\ \A k \in 1..Len(calls) : calls[k].attempt = k
    /\ Len(calls) >= 1 => calls[1].files = 0
    /\ Len(calls) = 2 => calls[2].files = Min({file_ctx, 20})
    /\ bpc = "retry" => Len(calls) = 1 /\ MissingMarker(patch)
    /\ (HasFinalOutput /\ Len(calls) = 1) => ~MissingMarker(patch)
    /\ (HasFinalOutput /\ MissingMarker(patch)) =>
          /\ Len(calls) = 2
          /\ bpc = "done" => exit.at = "validate"
          /\ (bpc = "done" /\ exit.how = "return") =>
                Announced(<<"Model did not return a valid unified diff">>)

\* C14, one step: a second call is made only when the output of the first
\* lacks a marker
C14_Step == (Len(calls) = 1 /\ Len(calls') = 2) => MissingMarker(patch)

\* C14: at most two model calls are made; the second is made exactly when
\* the first output fails validation and it alone receives the file
\* contents; after a second invalid output the run reports it and stops.
C14_ContextEscalation == []C14_Calls /\ [][C14_Step]_vars

\* C14 witness: the first output was invalid, the second, asked with the
\* file contents, was valid and was applied
C14_Witness ==
    /\ bpc = "done"
    /\ exit.at = "push"
    /\ Len(calls) = 2
    /\ calls[2].files >= 1
    /\ ~MissingMarker(patch)

\* the run fetched the pull request and ended by returning or sys.exit(0)
EndedNormally ==
    /\ bpc = "done"
    /\ exit.how \in {"return", "sys.exit(0)"}
    /\ exit.at \notin {"main", "get_pr"}

\* the heading of the status that names the outcome reached at position l
StatusOf(l) ==
    CASE l = "get_diff" -> <<"No changes to patch">>
      [] l = "ask" -> <<"OpenAI SDK import failed">>
      [] l = "validate" -> <<"Model did not return a valid unified diff">>
      [] l = "dump_rejects" -> <<"Patch failed to apply">>
      [] l = "commit" -> <<"Nothing to commit">>
      [] OTHER -> <<"Patch applied by Chat Fix Bot">>

\* C15: every run that fetched the pull request and ended normally has left
\* a comment or printed diagnostic for the outcome it reached: empty diff,
\* invalid patch, apply failure, nothing to commit, pushed, or push failed.
C15_NoSilentOutcome ==
    EndedNormally =>
        /\ comments # <<>>
        /\ IF exit.at = "push" /\ cmds[Len(cmds)].rc # 0
           THEN ~Announced(<<"Patch applied by Chat Fix Bot">>)
           ELSE Announced(StatusOf(exit.at))

\* the exit status of the script: an exception that leaves main ends the
\* interpreter with status 1, a return or sys.exit(0) with status 0
ExitStatus == IF exit.how = "exception" THEN 1 ELSE 0

\* a handled outcome: the run ended where the code reports an outcome
HandledOutcome ==
    /\ bpc = "done"
    /\ \/ exit.at \in {"main", "get_pr"} /\ exit.how = "sys.exit(0)"
       \/ exit.at \in {"get_diff", "validate", "dump_rejects", "commit", "push"}
            /\ exit.how = "return"

\* C16, one step: a step that ends the run by an exception also makes a
\* diagnostic comment
C16_Step ==
    (exit.how = "running" /\ exit'.how = "exception") => Len(comments') > Len(comments)

\* C16: the script exits with status zero on every handled outcome, and an
\* unexpected exception is reported in a diagnostic comment before the
\* script exits with a non-zero status.
C16_ExitStatusAndDiagnostic ==
    [](HandledOutcome => ExitStatus = 0) /\ [][C16_Step]_vars

\* C17: get_ranch_identifiers never raises: for every query name and every
\* outcome of the ranches listing request, a failed one included, the call
\* ends by returning a pair.
C17_ResolverNeverRaises ==
    (fn = "get_ranch_identifiers" /\ pc = "done") =>
        /\ ret.kind = "return"
        /\ Len(ret.val) = 2

\* get_weather_update or get_plantings_for_ranch has obtained the ranch
\* listing and looked the name up
NameLookedUp ==
    /\ fn \in {"get_weather_update", "get_plantings_for_ranch"}
    /\ pc \notin {"idle", "resolve"}
    /\ LookupDone("RANCHES")

NotFoundReturned ==
    ret \in {Return(<<"Location not found">>), Return(<<"Ranch not found">>)}

\* C18: get_weather_update returns "Location not found" and
\* get_plantings_for_ranch returns "Ranch ... not found" exactly when no
\* entry of the listing has a trimmed lower-cased Name equal to the trimmed
\* lower-cased query, and never when a matching entry exists.
C18_NotFoundIffNoMatch ==
    NameLookedUp => (NotFoundReturned <=> Matches(location, ranches) = {})

\* the ranch resolved with exactly one usable identifier
PartialIdentifiers ==
    /\ fn \in {"get_weather_update", "get_plantings_for_ranch"}
    /\ LookupDone("RANCHES")
    /\ pc \notin {"idle", "resolve"}
    /\ truthy_str(ranch_guid) # truthy_int(ranch_id)

\* the request is addressed by an identifier that the ranch has
AddressedByPresentIdentifier(r) ==
    CASE r.url = "WEATHER_STATIONS" ->
            \/ truthy_str(ranch_guid) /\ r.params = <<"ranchGuid", ranch_guid>>
            \/ truthy_int(ranch_id) /\ r.params = <<"ranchId", ranch_id>>
      [] r.url = "PLANTINGS_BY_RANCH_GUID" -> truthy_str(ranch_guid)
      [] r.url = "PLANTINGS_BY_RANCH_ID" -> truthy_int(ranch_id)
      [] OTHER -> TRUE

\* C19: for a ranch that resolves with a GUID but no numeric id, or with a
\* numeric id but no GUID, get_plantings_for_ranch and get_weather_update
\* never issue a request addressed by the absent identifier.
C19_NoRequestByAbsentIdentifier ==
    PartialIdentifiers => \A k \in 1..Len(reqs) : AddressedByPresentIdentifier(reqs[k])

\* the weather-stations requests of the call, in the order they were issued
StationsRequests == SelectSeq(reqs, IsStationsRequest)

\* C20: get_weather_update makes at most two stations requests, one after
\* the other, and the second only after the first raised an exception or
\* returned a non-success status, never after a first request that
\* returned a success status.
C20_FallbackOnlyAfterFailure ==
    fn = "get_weather_update" =>
        /\ Len(StationsRequests) <= 2
        /\ Len(StationsRequests) = 2 =>
              StationsRequests[1].outcome \in {"timeout", "http_error"}

\* C20 as amended: get_weather_update makes at most two stations requests,
\* one after the other, and the second only after the first raised a
\* request exception, returned a status other than 200, or returned 200
\* with an empty body; a first request that returned 200 with a non-empty
\* station list is never followed by a second one.
C20_FallbackOnlyAfterUnusable ==
    fn = "get_weather_update" =>
        /\ Len(StationsRequests) <= 2
        /\ Len(StationsRequests) = 2 =>
              StationsRequests[1].outcome \in {"timeout", "http_error", "ok_empty"}
        /\ (Len(StationsRequests) >= 1 /\ StationsRequests[1].outcome = "ok") =>
              /\ Len(StationsRequests) = 1
              /\ pc = "done"

\* C20 witness: the first stations request answered 200 with an empty list
\* and the weather sentence came from the second request
C20_Witness ==
    /\ fn = "get_weather_update"
    /\ pc = "done"
    /\ Len(StationsRequests) = 2
    /\ StationsRequests[1].outcome = "ok_empty"
    /\ StationsRequests[2].outcome = "ok"
    /\ ret = Return(<<"Current weather", Len(reqs)>>)

\* get_plantings_for_ranch has ended for a ranch that resolved
PlantingsDoneResolved ==
    /\ fn = "get_plantings_for_ranch"
    /\ pc = "done"
    /\ LookupDone("RANCHES")
    /\ truthy_int(ranch_id) \/ truthy_str(ranch_guid)

\* the positions in reqs of the plantings requests that succeeded
SuccessfulPlantings ==
    {k \in 1..Len(reqs) : IsPlantingsRequest(reqs[k]) /\ reqs[k].outcome = "ok"}

\* C21: get_plantings_for_ranch returns the payload of the first successful
\* attempt, identified by the attempt that produced it, and when every
\* attempt failed it returns the failure value naming the last error.
C21_FirstSuccessfulPayloadOrFailure ==
    PlantingsDoneResolved =>
        /\ ret.kind = "return"
        /\ IF SuccessfulPlantings # {}
           THEN ret.val = <<"plantings", Min(SuccessfulPlantings)>>
           ELSE ret.val = <<"Failed to fetch plantings">>

\* the comments the bot makes on failure
FailureHeadings ==
    {<<"Model did not return a valid unified diff">>, <<"Patch failed to apply">>,
     <<"Reject files">>}

\* C22: every text the bot inserts into a failure comment is capped to a
\* fixed size whatever its length: the model text of the invalid-patch
\* comment, and in the apply-failure diagnostics the output of the strict
\* attempt, the output of the three-way attempt, the patch text and the
\* reject files.
C22_SurfacedPartsAreCapped ==
    \A k \in 1..Len(comments) :
        comments[k].body[1] \in FailureHeadings =>
            \A j \in 1..Len(comments[k].sizes) : comments[k].sizes[j] <= 65000

----------------------------------------------------------------------------
(* The interactive agents: the free-text loop of src/main.py, the menu    *)
(* loop of src/crop_agent/main.py, and handle_intent called directly      *)

\* the api_handler functions are not being called
ApiOff ==
    /\ ranches = <<>>
    /\ crop_types = <<>>
    /\ fn = "none"
    /\ pc = "off"
    /\ crop = None
    /\ location = None
    /\ ranch_id = None
    /\ ranch_guid = None
    /\ crop_type_id = None
    /\ reqs = <<>>
    /\ ret = Pending

\* every intent name a caller may pass; recognize_intent produces five of
\* them, the menu three
Intents ==
    {"get_irrigation", "get_fertilizer", "get_weather", "get_plantings_count",
     "get_soil_status", "unknown"}

RecognizedIntents == Intents \ {"get_plantings_count"}

MenuIntents == {"get_irrigation", "get_fertilizer", "get_weather"}

\* what a typed answer can be: the empty string or a name
AgentTexts == {<<>>, <<"p">>}

\* parameters.get(key): None when the key is absent
OptTexts == {None} \cup {Some(t) : t \in AgentTexts}

ParamDicts == [crop : OptTexts, location : OptTexts]

\* the parameters recognize_intent can detect: entries of the loaded crop
\* and location lists, which hold non-empty names only
DetectedDicts == [crop : {None, Some(<<"p">>)}, location : {None, Some(<<"p">>)}]

\* truthiness of parameters.get(key)
truthy_text(v) == v # None /\ v[1] # <<>>

\* what a token request can answer: a body with an access_token, a 2xx body
\* without one, a 4xx/5xx status, or no answer
TokenOutcomes == {"token", "no_token", "http_error", "timeout"}

\* a faulty test of the token response: no response is taken
never_yields_token(o) == FALSE

\* authenticate, lines 21-30: the attempt returns the token
yields_token(o) == o = "token"

Reply(text) == [reply |-> Some(text), op |-> None]
Invoke(name) == [reply |-> None, op |-> Some(name)]

\* a faulty router that never tests the parameters
handle_intent_unchecked(i, p) ==
    CASE i = "get_irrigation" -> Invoke("get_irrigation_recommendation")
      [] i = "get_fertilizer" -> Invoke("get_fertilizer_recommendation")
      [] i = "get_weather" -> Invoke("get_weather_update")
      [] i = "get_plantings_count" -> Invoke("count_plantings")
      [] OTHER -> Reply("Intent not recognized")

\* handle_intent, lines 216-241: the fixed reply, or the backend operation
\* that is invoked
handle_intent(i, p) ==
    CASE i = "get_irrigation" ->
            IF ~(truthy_text(p.crop) /\ truthy_text(p.location))
            THEN Reply("Please specify crop and location")
            ELSE Invoke("get_irrigation_recommendation")
      [] i = "get_fertilizer" ->
            IF ~(truthy_text(p.crop) /\ truthy_text(p.location))
            THEN Reply("Please specify crop and location")
            ELSE Invoke("get_fertilizer_recommendation")
      [] i = "get_weather" ->
            IF ~truthy_text(p.location)
            THEN Reply("Please specify location")
            ELSE Invoke("get_weather_update")
      [] i = "get_plantings_count" ->
            IF ~truthy_text(p.location)
            THEN Reply("Please specify ranch")
            ELSE Invoke("count_plantings")
      [] OTHER -> Reply("Intent not recognized")

AgentInit ==
    /\ ApiOff
    /\ BotIdle
    /\ agent \in {"free_text", "menu", "direct"}
    /\ auth_reqs = <<>>
    /\ ops = <<>>
    /\ response = Pending
    /\ farewell = FALSE
    /\ interrupted = FALSE
    /\ aexit = "running"
    /\ IF agent = "direct"
       THEN /\ apc = "handle"
            /\ token = Some("t")
            /\ intent \in Intents
            /\ parameters \in ParamDicts
       ELSE /\ apc = "authenticate"
            /\ token = None
            /\ intent = "none"
            /\ parameters = [crop |-> None, location |-> None]

\* main returns
Returns == apc' = "done" /\ aexit' = "return"

\* speak("Goodbye!") and break
SaysGoodbye == farewell' = TRUE /\ Returns

\* authenticate, lines 18-30: the attempt with the form key userName
Authenticate1 ==
    /\ agent = "free_text"
    /\ apc = "authenticate"
    /\ \E o \in TokenOutcomes :
         /\ auth_reqs' = Append(auth_reqs, [key |-> "userName", outcome |-> o])
         /\ IF yields_token(o)
            THEN token' = Some("access_token 1") /\ apc' = "load"
            ELSE token' = token /\ apc' = "authenticate_2"
    /\ UNCHANGED <<apiVars, botVars, agent, intent, parameters, ops, response,
                   farewell, interrupted, aexit>>

\* authenticate, lines 18-33, and src/main.py, lines 18-21: the attempt with
\* the form key username; without a token main prints "Login failed" and
\* returns
Authenticate2 ==
    /\ agent = "free_text"
    /\ apc = "authenticate_2"
    /\ \E o \in TokenOutcomes :
         /\ auth_reqs' = Append(auth_reqs, [key |-> "username", outcome |-> o])
         /\ IF yields_token(o)
            THEN token' = Some("access_token 2") /\ apc' = "load" /\ aexit' = aexit
            ELSE token' = None /\ Returns
    /\ UNCHANGED <<apiVars, botVars, agent, intent, parameters, ops, response,
                   farewell, interrupted>>

\* src/crop_agent/api_handler.py, lines 1-5, and src/crop_agent/main.py,
\* lines 124-127: the menu agent's authenticate compares the credentials
MenuAuthenticate ==
    /\ agent = "menu"
    /\ apc = "authenticate"
    /\ \/ token' = Some("token12345") /\ apc' = "load" /\ aexit' = aexit
       \/ token' = None /\ Returns
    /\ UNCHANGED <<apiVars, botVars, agent, auth_reqs, intent, parameters, ops, response,
                   farewell, interrupted>>

\* src/main.py, lines 23-25, and src/crop_agent/main.py, lines 132-139: the
\* crop and location lists are loaded; a failure leaves a list empty
Load ==
    /\ agent \in {"free_text", "menu"}
    /\ apc = "load"
    /\ apc' = IF agent = "free_text" THEN "input" ELSE "menu_type"
    /\ UNCHANGED <<apiVars, botVars, agent, auth_reqs, token, intent, parameters, ops,
                   response, farewell, interrupted, aexit>>

\* where the free-text loop goes after recognize_intent
after_recognize(i, p) ==
    IF i \in {"get_irrigation", "get_fertilizer"} /\ p.crop = None THEN "prompt_crop"
    ELSE IF i \in {"get_irrigation", "get_fertilizer"} /\ p.location = None
         THEN "prompt_location"
         ELSE "handle"

\* src/main.py, lines 29-38: a line is read; an exit word says goodbye,
\* anything else is handed to recognize_intent; input() can raise EOFError
ReadInput ==
    /\ agent = "free_text"
    /\ apc = "input"
    /\ ops' = <<>>
    /\ response' = Pending
    /\ \/ SaysGoodbye /\ UNCHANGED <<intent, parameters>>
       \/ /\ apc' = "on_error"
          /\ UNCHANGED <<intent, parameters, farewell, aexit>>
       \/ \E i \in RecognizedIntents, p \in DetectedDicts :
            /\ intent' = i
            /\ parameters' = p
            /\ apc' = after_recognize(i, p)
            /\ UNCHANGED <<farewell, aexit>>
    /\ UNCHANGED <<apiVars, botVars, agent, auth_reqs, token, interrupted>>

\* src/main.py, lines 42-44: the crop is asked for
PromptCrop ==
    /\ agent = "free_text"
    /\ apc = "prompt_crop"
    /\ \E t \in AgentTexts : parameters' = [parameters EXCEPT !.crop = Some(t)]
    /\ apc' = IF parameters.location = None THEN "prompt_location" ELSE "handle"
    /\ UNCHANGED <<apiVars, botVars, agent, auth_reqs, token, intent, ops, response,
                   farewell, interrupted, aexit>>

\* src/main.py, lines 45-47: the location is asked for
PromptLocation ==
    /\ agent = "free_text"
    /\ apc = "prompt_location"
    /\ \E t \in AgentTexts : parameters' = [parameters EXCEPT !.location = Some(t)]
    /\ apc' = "handle"
    /\ UNCHANGED <<apiVars, botVars, agent, auth_reqs, token, intent, ops, response,
                   farewell, interrupted, aexit>>

\* what a backend operation gives back to handle_intent: a string, or an
\* exception it lets through
OpResults(name) == {Return(<<"result of", name>>), Raise("Exception")}

\* handle_intent(intent, parameters, auth) of src/api_handler.py, called by
\* the free-text loop (src/main.py, line 49) or directly
HandleIntent ==
    /\ agent \in {"free_text", "direct"}
    /\ apc = "handle"
    /\ LET h == handle_intent(intent, parameters) IN
       \E r \in IF h.op = None THEN {Return(<<h.reply[1]>>)} ELSE OpResults(h.op[1]) :
         /\ ops' = IF h.op = None THEN ops ELSE Append(ops, h.op[1])
         /\ response' = r
         /\ IF agent = "direct"
            THEN apc' = "done" /\ aexit' = IF r.kind = "raise" THEN "exception" ELSE "return"
            ELSE apc' = (IF r.kind = "raise" THEN "on_error" ELSE "speak") /\ aexit' = aexit
    /\ UNCHANGED <<apiVars, botVars, agent, auth_reqs, token, intent, parameters,
                   farewell, interrupted>>

\* src/main.py, lines 50-51: the response is printed and spoken
Speak ==
    /\ agent = "free_text"
    /\ apc = "speak"
    /\ apc' = "input"
    /\ UNCHANGED <<apiVars, botVars, agent, auth_reqs, token, intent, parameters, ops,
                   response, farewell, interrupted, aexit>>

\* src/main.py, lines 53-55, and src/crop_agent/main.py, lines 203-206: the
\* handler of Exception reports the error and the loop goes on
OnError ==
    /\ agent \in {"free_text", "menu"}
    /\ apc = "on_error"
    /\ apc' = IF agent = "free_text" THEN "input" ELSE "menu_type"
    /\ UNCHANGED <<apiVars, botVars, agent, auth_reqs, token, intent, parameters, ops,
                   response, farewell, interrupted, aexit>>

\* src/crop_agent/main.py, lines 143-151: the recommendation type is
\* chosen; input() can raise EOFError
MenuType ==
    /\ agent = "menu"
    /\ apc = "menu_type"
    /\ ops' = <<>>
    /\ response' = Pending
    /\ \/ SaysGoodbye /\ UNCHANGED <<intent, parameters>>
       \/ /\ apc' = "on_error"
          /\ UNCHANGED <<intent, parameters, farewell, aexit>>
       \/ \E i \in MenuIntents :
            /\ intent' = i
            /\ parameters' = [crop |-> None, location |-> None]
            /\ apc' = IF i \in {"get_irrigation", "get_fertilizer"}
                      THEN "menu_crop" ELSE "menu_location"
            /\ UNCHANGED <<farewell, aexit>>
    /\ UNCHANGED <<apiVars, botVars, agent, auth_reqs, token, interrupted>>

\* src/crop_agent/main.py, lines 155-163: the crop is chosen
MenuCrop ==
    /\ agent = "menu"
    /\ apc = "menu_crop"
    /\ \/ SaysGoodbye /\ UNCHANGED parameters
       \/ apc' = "menu_type" /\ UNCHANGED <<parameters, farewell, aexit>>
       \/ /\ parameters' = [parameters EXCEPT !.crop = Some(<<"p">>)]
          /\ apc' = "menu_location"
          /\ UNCHANGED <<farewell, aexit>>
    /\ UNCHANGED <<apiVars, botVars, agent, auth_reqs, token, intent, ops, response,
                   interrupted>>

\* src/crop_agent/main.py, lines 165-173: the location is chosen
MenuLocation ==
    /\ agent = "menu"
    /\ apc = "menu_location"
    /\ \/ SaysGoodbye /\ UNCHANGED parameters
       \/ apc' = "menu_type" /\ UNCHANGED <<parameters, farewell, aexit>>
       \/ /\ parameters' = [parameters EXCEPT !.location = Some(<<"p">>)]
          /\ apc' = "handle"
          /\ UNCHANGED <<farewell, aexit>>
    /\ UNCHANGED <<apiVars, botVars, agent, auth_reqs, token, intent, ops, response,
                   interrupted>>

\* src/crop_agent/main.py, line 176, and src/crop_agent/api_handler.py,
\* lines 7-15: the menu agent's handle_intent answers with a fixed sentence
MenuHandle ==
    /\ agent = "menu"
    /\ apc = "handle"
    /\ response' = Return(<<"recommendation for", intent>>)
    /\ apc' = "show"
    /\ UNCHANGED <<apiVars, botVars, agent, auth_reqs, token, intent, parameters, ops,
                   farewell, interrupted, aexit>>

\* src/crop_agent/main.py, lines 178-197: the result is shown and spoken,
\* then the user continues or leaves
Show ==
    /\ agent = "menu"
    /\ apc = "show"
    /\ \/ SaysGoodbye
       \/ apc' = "menu_type" /\ UNCHANGED <<farewell, aexit>>
    /\ UNCHANGED <<apiVars, botVars, agent, auth_reqs, token, intent, parameters, ops,
                   response, interrupted>>

\* the positions inside the try block of each loop, and inside its handler
\* of Exception
TryPositions ==
    {"input", "prompt_crop", "prompt_location", "handle", "speak",
     "menu_type", "menu_crop", "menu_location", "show"}

LoopPositions == TryPositions \cup {"on_error"}

\* the user presses Ctrl-C while a loop runs.  src/crop_agent/main.py, lines
\* 199-202, handles KeyboardInterrupt raised inside its try block; src/main.py,
\* lines 53-55, handles Exception only, and an interrupt raised inside a
\* handler is handled by nothing
Interrupt ==
    /\ agent \in {"free_text", "menu"}
    /\ apc \in LoopPositions
    /\ interrupted' = TRUE
    /\ apc' = "done"
    /\ IF agent = "menu" /\ apc \in TryPositions
       THEN farewell' = TRUE /\ aexit' = "return"
       ELSE farewell' = farewell /\ aexit' = "KeyboardInterrupt"
    /\ UNCHANGED <<apiVars, botVars, agent, auth_reqs, token, intent, parameters, ops,
                   response>>

AgentNext ==
    \/ Authenticate1
    \/ Authenticate2
    \/ MenuAuthenticate
    \/ Load
    \/ ReadInput
    \/ PromptCrop
    \/ PromptLocation
    \/ HandleIntent
    \/ Speak
    \/ OnError
    \/ MenuType
    \/ MenuCrop
    \/ MenuLocation
    \/ MenuHandle
    \/ Show
    \/ Interrupt

AgentSpec == AgentInit /\ [][AgentNext]_vars

\* C23: in both interactive loops a keyboard interrupt arriving at any point
\* of the loop ends the loop cleanly: the farewell is emitted and main
\* returns normally, the interrupt does not leave main.
C23_InterruptEndsLoopCleanly ==
    interrupted =>
        /\ apc = "done"
        /\ farewell
        /\ aexit = "return"

\* authenticate has been called by the free-text agent and has returned
AuthenticateReturned ==
    /\ agent = "free_text"
    /\ apc \notin {"authenticate", "authenticate_2"}

\* the token requests that answered with an access token
TokenAnswers == {k \in 1..Len(auth_reqs) : auth_reqs[k].outcome = "token"}

C25_WeatherAlwaysReturnsString ==
    (fn = "get_weather_update" /\ pc = "done" /\ LookupDone("RANCHES")) =>
        /\ ret.kind = "return"
        /\ ret.val[1] \in {"Location not found", "Current weather", "Weather data unavailable"}

\* the text is non-empty and carries each of the four markers
WellFormed(text) ==
    /\ text # <<>>
    /\ \A m \in StructuralMarkers : \E i \in 1..Len(text) : text[i] = m

\* the positions of apply_patch_and_push
InApply == {"apply", "apply_3way", "rejected", "dump_rejects", "commit", "push"}

\* C26: ensure_valid_unified_diff(patch) is true exactly when patch is
\* non-empty and carries the four markers, sanitize_patch_whitespace keeps a
\* valid patch valid, and the text handed to apply_patch_and_push is
\* well-formed.
C26_ValidIffFourMarkers ==
    /\ bpc \in {"retry", "validate"} =>
          /\ ensure_valid_unified_diff(patch) <=> WellFormed(patch)
          /\ WellFormed(patch) => WellFormed(sanitize_patch_whitespace(patch))
    /\ bpc = "retry" => ~WellFormed(patch)
    /\ (bpc \in InApply \/ (bpc = "done" /\ exit.at \in InApply)) => WellFormed(patch)
    /\ (bpc = "done" /\ exit.at = "validate" /\ exit.how = "return") => ~WellFormed(patch)

\* C26 witness: a model output with the four markers and blanks before a
\* line end was accepted at the first attempt and is about to be sanitized
C26_Witness ==
    /\ bpc = "validate"
    /\ Len(calls) = 1
    /\ WellFormed(patch)
    /\ sanitize_patch_whitespace(patch) # patch

\* the text holds nothing but whitespace
Blank(text) == \A i \in 1..Len(text) : text[i] \in {" ", "\t", "\r", "\n"}

\* C27: when the base..head diff is empty or whitespace-only, main makes the
\* empty-diff notice and stops: no model call, no apply attempt, no commit
\* and no push is made in that run.
C27_EmptyDiffStopsTheRun ==
    (cmds # <<>> /\ Blank(diff)) =>
        /\ bpc = "done"
        /\ exit.at = "get_diff"
        /\ exit.how = "return" => Announced(<<"No changes to patch">>)
        /\ calls = <<>>
        /\ \A k \in 1..Len(cmds) : ~IsTreeCommand(cmds[k])

\* C27 witness: git diff printed whitespace only, the notice was posted and
\* the run returned
C27_Witness ==
    /\ bpc = "done"
    /\ diff # <<>>
    /\ Blank(diff)
    /\ exit = [how |-> "return", at |-> "get_diff"]
    /\ Announced(<<"No changes to patch">>)

\* C28: the file contents given to the second model call are bounded: at
\* most the first 20 changed files are included and each file body is cut
\* to at most 50000 characters, however many and however long the changed
\* files are.
C28_FileContextIsBounded ==
    \A k \in 1..Len(calls) :
        /\ calls[k].files <= 20
        /\ calls[k].longest <= 50000
        /\ k = 2 =>
              /\ calls[k].files = Min({file_ctx, 20})
              /\ calls[k].longest = Min({file_len, 50000})

\* C28 witness: the pull request changed more than 20 files, one of the
\* first 20 longer than 50000 characters, and the second model call was made
C28_Witness ==
    /\ Len(calls) = 2
    /\ file_ctx > 20
    /\ file_len > 50000
    /\ calls[2].files = 20
    /\ calls[2].longest = 50000

\* the parameter is present and not empty
Given(v) == v # None /\ Len(v[1]) > 0

\* the parameters that the intent requires are all given
HasRequired(i, p) ==
    CASE i \in {"get_irrigation", "get_fertilizer"} -> Given(p.crop) /\ Given(p.location)
      [] i \in {"get_weather", "get_plantings_count"} -> Given(p.location)
      [] OTHER -> FALSE

\* the backend operation of each known intent
OperationOf(i) ==
    CASE i = "get_irrigation" -> "get_irrigation_recommendation"
      [] i = "get_fertilizer" -> "get_fertilizer_recommendation"
      [] i = "get_weather" -> "get_weather_update"
      [] i = "get_plantings_count" -> "count_plantings"
      [] OTHER -> "none"

FixedReplies ==
    {Return(<<"Please specify crop and location">>), Return(<<"Please specify location">>),
     Return(<<"Please specify ranch">>), Return(<<"Intent not recognized">>)}

\* handle_intent of src/api_handler.py has ended
HandleIntentEnded == agent \in {"free_text", "direct"} /\ response.kind # "pending"

\* C29: handle_intent invokes a backend operation, and so issues network
\* requests, only for one of the four known intents with all its required
\* parameters given; with a required parameter missing or an unknown intent
\* it returns a fixed error string and invokes nothing.
C29_NoRequestWithoutParameters ==
    HandleIntentEnded =>
        IF HasRequired(intent, parameters)
        THEN ops = <<OperationOf(intent)>>
        ELSE ops = <<>> /\ response \in FixedReplies

\* C29 witness: the free-text agent understood a weather question without a
\* location and handle_intent answered with the fixed sentence
C29_Witness ==
    /\ agent = "free_text"
    /\ intent = "get_weather"
    /\ parameters.location = None
    /\ response = Return(<<"Please specify location">>)
    /\ ops = <<>>

====
